---- MODULE Spec2Model ----
(***************************************************************************)
(* Model of src/app.py: the Streamlit script of the "Viral Shorts Title &  *)
(* Headline Generator".  The script is re-executed top to bottom on every  *)
(* operator event; st.session_state survives between executions.  One      *)
(* action of Spec is one complete execution of the script (a "pass").       *)
(*                                                                         *)
(* Text is modelled as a sequence of tokens.  A token is an indivisible     *)
(* piece of text: a fence, one whitespace character, a JSON punctuation     *)
(* character, a JSON string literal, or a word of prose.                    *)
(***************************************************************************)
EXTENDS Integers, Sequences, FiniteSets, TLC

\* ---------------------------------------------------------------- tokens
\* (a backquote cannot be written in a TLA+ string; an apostrophe stands for it)
FenceJson == "'''json"
Fence     == "'''"
Space     == " "
LBracket  == "["
RBracket  == "]"
Comma     == ","
StrA      == "\"A\""
StrB      == "\"B\""
Prose     == "Sorry"
Null      == "null"

StringLiterals == {StrA, StrB}
Tokens == {FenceJson, Fence, Space, LBracket, RBracket, Comma, StrA, Prose}

\* ---------------------------------------------------------------- bounds
MaxLen  == 4      \* longest completion explored by SpecExtract
MaxTime == 2      \* number of distinct clock readings
MaxBlocks == 2    \* most blocks of a subtitle file explored by SpecSrt
MaxLines  == 2    \* most dialogue lines of one block
MaxExtracts == 2  \* most invocations of the extractor on one completion

\* ------------------------------------------------------- sequence helpers
\* the token sequences of length n, and those of length at most n
RECURSIVE SeqsOfLen(_)
SeqsOfLen(n) ==
    IF n = 0 THEN {<<>>} ELSE {Append(s, t) : s \in SeqsOfLen(n - 1), t \in Tokens}

SeqsUpTo(n) == UNION {SeqsOfLen(k) : k \in 0..n}

\* ================================================================ json.loads
\* The value of a JSON text is kept in normal form: the tokens of the value
\* with all insignificant whitespace removed.  A list is kept as the sequence
\* of the normal forms of its elements.
ListValue(items) == [kind |-> "list", items |-> items]
StrValue(tok)    == [kind |-> "str",  items |-> << <<tok>> >>]
NullValue        == [kind |-> "null", items |-> << <<Null>> >>]
EmptyList        == ListValue(<<>>)

RECURSIVE SkipWs(_, _)
SkipWs(s, i) == IF i <= Len(s) /\ s[i] = Space THEN SkipWs(s, i + 1) ELSE i

RECURSIVE Flatten(_)
Flatten(items) ==
    IF items = <<>> THEN <<>>
    ELSE Head(items) \o (IF Len(items) > 1 THEN <<Comma>> ELSE <<>>) \o Flatten(Tail(items))

NormalForm(v) == IF v.kind = "list" THEN <<LBracket>> \o Flatten(v.items) \o <<RBracket>>
                 ELSE v.items[1]

ParseFail == [ok |-> FALSE, next |-> 0, value |-> EmptyList]

RECURSIVE ParseValue(_, _), ParseArray(_, _), ParseElements(_, _, _), AfterElement(_, _, _), AfterElementWs(_, _, _)
\* one JSON value starting at position i (whitespace already skipped)
ParseValue(s, i) ==
    IF i > Len(s) THEN ParseFail
    ELSE IF s[i] \in StringLiterals THEN [ok |-> TRUE, next |-> i + 1, value |-> StrValue(s[i])]
    ELSE IF s[i] = Null THEN [ok |-> TRUE, next |-> i + 1, value |-> NullValue]
    ELSE IF s[i] = LBracket THEN ParseArray(s, SkipWs(s, i + 1))
    ELSE ParseFail
\* an array whose opening bracket and the whitespace after it end before j
ParseArray(s, j) ==
    IF j <= Len(s) /\ s[j] = RBracket
    THEN [ok |-> TRUE, next |-> j + 1, value |-> EmptyList]
    ELSE ParseElements(s, j, <<>>)
\* the elements of an array, the next of which starts at i; acc = elements so far
ParseElements(s, i, acc) == AfterElement(s, ParseValue(s, i), acc)
\* e = the element just parsed
AfterElement(s, e, acc) ==
    IF ~e.ok THEN ParseFail
    ELSE AfterElementWs(s, SkipWs(s, e.next), Append(acc, NormalForm(e.value)))
\* j = the position after the element and the whitespace that follows it
AfterElementWs(s, j, items) ==
    IF j > Len(s) THEN ParseFail
    ELSE IF s[j] = RBracket THEN [ok |-> TRUE, next |-> j + 1, value |-> ListValue(items)]
    ELSE IF s[j] = Comma THEN ParseElements(s, SkipWs(s, j + 1), items)
    ELSE ParseFail

\* nothing but whitespace may follow the value r
WholeText(s, r) ==
    IF r.ok /\ SkipWs(s, r.next) > Len(s) THEN [ok |-> TRUE, value |-> r.value]
    ELSE [ok |-> FALSE, value |-> EmptyList]

\* json.loads: [ok, value]; ok = FALSE stands for json.JSONDecodeError
JsonLoads(s) == WholeText(s, ParseValue(s, SkipWs(s, 1)))

\* ================================================= parse_json_from_response
\* a closing fence is the three backquotes; they also begin a FenceJson token
IsFence(tok) == tok \in {Fence, FenceJson}

\* position of the first fence after position g, 0 if there is none
RECURSIVE NextFence(_, _)
NextFence(s, g) ==
    IF g >= Len(s) THEN 0
    ELSE IF IsFence(s[g + 1]) THEN g + 1 ELSE NextFence(s, g + 1)

\* the last position in g..c-1 that is not whitespace, g if all of it is
RECURSIVE LazyEnd(_, _, _)
LazyEnd(s, g, c) == IF c - 1 > g /\ s[c - 1] = Space THEN LazyEnd(s, g, c - 1) ELSE c - 1

NoMatch == [found |-> FALSE, group |-> <<>>]

\* the match whose group starts at w and whose closing fence is at c (0 = none);
\* without one, \s* gives back its last whitespace to the group if the
\* token at w is itself a fence
MatchGroup(s, i, w, c) ==
    IF c # 0 THEN [found |-> TRUE, group |-> SubSeq(s, w, LazyEnd(s, w, c))]
    ELSE IF w > i + 1 /\ w <= Len(s) /\ IsFence(s[w])
         THEN [found |-> TRUE, group |-> <<s[w - 1]>>]
         ELSE NoMatch

\* position of the last fence after position g, 0 if there is none
RECURSIVE LastFence(_, _)
LastFence(s, g) ==
    IF Len(s) <= g THEN 0
    ELSE IF IsFence(s[Len(s)]) THEN Len(s) ELSE LastFence(SubSeq(s, 1, Len(s) - 1), g)

\* variant: the group is extended greedily, to the last closing fence
MatchFrom_greedy(s, i, w) ==
    MatchGroup(s, i, w, IF w <= Len(s) THEN LastFence(s, w) ELSE 0)

\* the group is extended lazily, to the first closing fence after its first token
MatchFrom(s, i, w) ==
    MatchGroup(s, i, w, IF w <= Len(s) THEN NextFence(s, w) ELSE 0)

\* the regular expression  FenceJson \s* ([\s\S]+?) \s* Fence  anchored at the
\* FenceJson token at position i; the greedy \s* ends before position w
MatchAt(s, i) == MatchFrom(s, i, SkipWs(s, i + 1))

\* re.search: the match at the leftmost position that has one
RECURSIVE SearchFrom(_, _), FirstMatch(_, _, _)
SearchFrom(s, i) ==
    IF i > Len(s) THEN NoMatch
    ELSE FirstMatch(s, i, IF s[i] = FenceJson THEN MatchAt(s, i) ELSE NoMatch)
FirstMatch(s, i, m) == IF m.found THEN m ELSE SearchFrom(s, i + 1)

re_search(text) == SearchFrom(text, 1)

\* json_str: group(1) of the match, the whole text without a match
Payload(match, text) == IF match.found THEN match.group ELSE text

\* "return json.loads(json_str)", or st.error(...) and "return []"
ParsedOrEmpty(loaded) ==
    IF loaded.ok THEN [called |-> TRUE, value |-> loaded.value, error |-> FALSE]
    ELSE [called |-> TRUE, value |-> EmptyList, error |-> TRUE]

parse_json_from_response(text) == ParsedOrEmpty(JsonLoads(Payload(re_search(text), text)))

NotCalled == [called |-> FALSE, value |-> EmptyList, error |-> FALSE]

\* ================================================================ parse_srt
\* further tokens of subtitle text
\* (a run of digits is one token: two digit tokens are never adjacent)
Newline     == "\n"
Dashes      == "--"
HmsComma    == "00:00:01,"
HmsPeriod   == "00:00:01."
Millis      == "000"
LessThan    == "<"
GreaterThan == ">"

IsDigits(tok) == tok \in {"1", "2", "3", "4", "42", Millis}
IsWs(tok)     == tok \in {Space, Newline}

\* the position after the whitespace that starts at i
RECURSIVE SkipAllWs(_, _)
SkipAllWs(s, i) == IF i <= Len(s) /\ IsWs(s[i]) THEN SkipAllWs(s, i + 1) ELSE i

\* variant: only the comma is accepted before the milliseconds
TimestampAt_commaOnly(s, t) ==
    /\ t + 1 <= Len(s)
    /\ s[t] = HmsComma
    /\ s[t + 1] = Millis

\* \d{2}:\d{2}:\d{2}[,.]\d{3}  at position t
TimestampAt(s, t) ==
    /\ t + 1 <= Len(s)
    /\ s[t] \in {HmsComma, HmsPeriod}
    /\ s[t + 1] = Millis

\* timestamp \s-->\s timestamp  at position t (eight tokens)
TimecodeAt(s, t) ==
    /\ t + 6 <= Len(s)
    /\ TimestampAt(s, t)
    /\ IsWs(s[t + 2])
    /\ s[t + 3] = Dashes
    /\ s[t + 4] = GreaterThan
    /\ IsWs(s[t + 5])
    /\ TimestampAt(s, t + 5 + 1)

\* \d+\s*\n  at position i, the timecode after it at t: the whitespace after
\* the digits ends with a line break that the timecode follows directly
HeaderWith(s, i, t) ==
    /\ IsDigits(s[i])
    /\ t > i + 1
    /\ s[t - 1] = Newline
    /\ TimecodeAt(s, t)

\* the block header pattern at position i: 0, or the position after the match
\* (the trailing \s* takes all the whitespace that follows)
HeaderEnd(s, i) ==
    IF HeaderWith(s, i, SkipAllWs(s, i + 1)) THEN SkipAllWs(s, SkipAllWs(s, i + 1) + 8) ELSE 0

\* re.sub(header pattern, '', s): what is left from position i on
RECURSIVE RemoveHeaders(_, _)
RemoveHeaders(s, i) ==
    IF i > Len(s) THEN <<>>
    ELSE IF HeaderEnd(s, i) # 0 THEN RemoveHeaders(s, HeaderEnd(s, i))
    ELSE <<s[i]>> \o RemoveHeaders(s, i + 1)

\* str.strip
RECURSIVE StripLeft(_), StripRight(_)
StripLeft(s)  == IF s # <<>> /\ IsWs(Head(s)) THEN StripLeft(Tail(s)) ELSE s
StripRight(s) == IF s # <<>> /\ IsWs(s[Len(s)]) THEN StripRight(SubSeq(s, 1, Len(s) - 1)) ELSE s
Strip(s)      == StripRight(StripLeft(s))

\* position of the first GreaterThan after position i, 0 if there is none
RECURSIVE NextGreaterThan(_, _)
NextGreaterThan(s, i) ==
    IF i >= Len(s) THEN 0
    ELSE IF s[i + 1] = GreaterThan THEN i + 1 ELSE NextGreaterThan(s, i + 1)

\* <[^>]+>  at position i: 0, or the position after the match
TagEnd(s, i) ==
    IF s[i] = LessThan /\ NextGreaterThan(s, i) > i + 1 THEN NextGreaterThan(s, i) + 1 ELSE 0

\* re.sub(r'<[^>]+>', '', s): what is left from position i on
RECURSIVE RemoveTags(_, _)
RemoveTags(s, i) ==
    IF i > Len(s) THEN <<>>
    ELSE IF TagEnd(s, i) # 0 THEN RemoveTags(s, TagEnd(s, i))
    ELSE <<s[i]>> \o RemoveTags(s, i + 1)

\* str.splitlines: the lines of s, cur = the line being read
RECURSIVE SplitLines(_, _)
SplitLines(s, cur) ==
    IF s = <<>> THEN (IF cur = <<>> THEN <<>> ELSE <<cur>>)
    ELSE IF Head(s) = Newline THEN <<cur>> \o SplitLines(Tail(s), <<>>)
    ELSE SplitLines(Tail(s), Append(cur, Head(s)))

\* [ln.strip() for ln in lines if ln.strip()]
RECURSIVE StrippedLines(_)
StrippedLines(lines) ==
    IF lines = <<>> THEN <<>>
    ELSE (IF Strip(Head(lines)) # <<>> THEN <<Strip(Head(lines))>> ELSE <<>>)
             \o StrippedLines(Tail(lines))

\* " ".join(lines), as tokens
RECURSIVE JoinLines(_)
JoinLines(lines) ==
    IF lines = <<>> THEN <<>>
    ELSE Head(lines) \o (IF Len(lines) > 1 THEN <<Space>> ELSE <<>>) \o JoinLines(Tail(lines))

\* the text that a sequence of tokens spells
RECURSIVE Text(_)
Text(s) == IF s = <<>> THEN "" ELSE Head(s) \o Text(Tail(s))

\* the dialogue as tokens
DialogueTokens(srt_text) ==
    JoinLines(StrippedLines(SplitLines(RemoveTags(Strip(RemoveHeaders(srt_text, 1)), 1), <<>>)))

\* the dialogue as a string, and as the tokens it is made of
Dialogue(tokens) == [called |-> TRUE, tokens |-> tokens, dialogue |-> Text(tokens)]

parse_srt(file_content) == Dialogue(DialogueTokens(file_content))

NotParsed == [called |-> FALSE, tokens |-> <<>>, dialogue |-> ""]

\* ============================================================ the pipeline
VARIABLES
    transcript_input,       \* st.session_state.transcript_input ("" = unset)
    generated_tones,        \* st.session_state.generated_tones
    selected_tone,          \* st.session_state.selected_tone (None = unset)
    last_result_md,         \* st.session_state.last_result_md (EmptyMd = "")
    last_run_time,          \* st.session_state.last_run_time (0 = "")
    transcript_input_area,  \* what the input widgets of step 1 currently hold
    radio_index,            \* position held by the tone radio, 0 = not shown
    last_event,             \* the operator event that caused the last pass
    before,                 \* the session state when the last pass began
    reports,                \* st.error / st.warning messages of the last pass
    response_text,          \* last completion handed to parse_json_from_response
    tones_result,           \* what parse_json_from_response returned for it
    srt_blocks,             \* the blocks the subtitle file was written from (SpecSrt)
    srt_file,               \* the subtitle file held by the uploader in the last pass
    srt_result,             \* what parse_srt returned for it
    sidebar,                \* the values of the sidebar widgets in the last pass
    calls,                  \* the prompts sent to model.generate_content in the last pass
    pc,                     \* where the script stands: "idle" between two passes
    pending,                \* the generate_content calls that have not returned yet
    header_response,        \* what the header call of the running pass returned
    extract_results,        \* the results of the extractor on response_text so far
    result_source           \* the transcript in the prompts that last_result_md answers ("" = no document)

vars == <<transcript_input, generated_tones, selected_tone, last_result_md,
          last_run_time, transcript_input_area, radio_index, last_event, before,
          reports, response_text, tones_result, srt_blocks, srt_file, srt_result,
          sidebar, calls, pc, pending, header_response, extract_results,
          result_source>>

None == <<>>

\* the Python value of a parsed list element: null is None
PyValue(item) == IF item = <<Null>> THEN None ELSE item
EmptyMd == [tone |-> None, headers |-> "", titles |-> ""]

\* --------------------------------------------------------- operator inputs
\* dialogue lines that subtitle files are written from
DialogueLines ==
    { <<Space, LessThan, "i", GreaterThan, "Hello", Space, "world", LessThan, "/i", GreaterThan, Space>>,
      <<"42">> }

RECURSIVE LinesOfLen(_)
LinesOfLen(n) ==
    IF n = 0 THEN {<<>>} ELSE {Append(ls, l) : ls \in LinesOfLen(n - 1), l \in DialogueLines}

\* a block: the separator of its timestamps and its dialogue lines
Blocks == [hms : {HmsComma, HmsPeriod}, lines : UNION {LinesOfLen(n) : n \in 1..MaxLines}]

RECURSIVE BlocksOfLen(_)
BlocksOfLen(n) ==
    IF n = 0 THEN {<<>>} ELSE {Append(bs, b) : bs \in BlocksOfLen(n - 1), b \in Blocks}

IndexToken(k) == <<"1", "2", "3", "4">>[k]

RECURSIVE WriteLines(_)
WriteLines(lines) ==
    IF lines = <<>> THEN <<>> ELSE Head(lines) \o <<Newline>> \o WriteLines(Tail(lines))

\* index line, timestamp line, dialogue lines, blank line
WriteBlock(k, b) ==
    <<IndexToken(k), Newline, b.hms, Millis, Space, Dashes, GreaterThan, Space, b.hms, Millis, Newline>>
        \o WriteLines(b.lines) \o <<Newline>>

RECURSIVE WriteBlocks(_, _)
WriteBlocks(blocks, k) ==
    IF k > Len(blocks) THEN <<>> ELSE WriteBlock(k, blocks[k]) \o WriteBlocks(blocks, k + 1)

Docs == {"T1", "T2"}
ToneCompletions ==
    { <<LBracket, StrA, Comma, StrB, RBracket>>,
      <<Prose, Space, FenceJson, Space, LBracket, StrB, RBracket, Space, Fence>>,
      <<LBracket, RBracket>>,
      <<Prose>>,
      <<FenceJson, Prose, Fence, LBracket, StrA, RBracket>>,
      <<LBracket, Null, RBracket>> }
HeaderTexts == {"H1", "H2"}
TitleTexts  == {"L1"}
CallFailed  == [ok |-> FALSE, text |-> <<>>]
GenFailed   == [ok |-> FALSE, text |-> ""]
ToneCalls   == {CallFailed} \cup {[ok |-> TRUE, text |-> c] : c \in ToneCompletions}
HeaderCalls == {GenFailed} \cup {[ok |-> TRUE, text |-> h] : h \in HeaderTexts}
TitleCalls  == {GenFailed} \cup {[ok |-> TRUE, text |-> t] : t \in TitleTexts}
Times       == 1..MaxTime

\* the sidebar: two sliders, the checkbox and the text area of the custom angle
SliderMin          == 5
SliderMax          == 30
HeaderCountDefault == 15
TitleCountDefault  == 10
SidebarDefault ==
    [header_count |-> HeaderCountDefault, title_count |-> TitleCountDefault,
     use_custom_angle |-> FALSE, custom_angle |-> ""]
Sidebars ==
    { SidebarDefault,
      [header_count |-> SliderMin, title_count |-> SliderMax,
       use_custom_angle |-> TRUE, custom_angle |-> " Founders "] }

\* ---------------------------------------------------------------- prompts
\* A prompt is kept as the template it is written from and the values put
\* into the template.
\* str.strip on the texts of the custom angle
StripText(text) ==
    CASE text = " Founders " -> "Founders"
      [] text = " "          -> ""
      [] OTHER               -> text

get_tone_prompt(srt_raw_text) ==
    [template |-> "tone", transcript |-> srt_raw_text]

\* "Generate 10 responses.": the number written in the header template
HeaderResponses == 10

\* the angle block is written when the stripped angle is not empty;
\* header_count is not used
get_header_prompt(transcript_text, chosen_tone, header_count, custom_angle) ==
    [template   |-> "header",
     transcript |-> transcript_text,
     tone       |-> chosen_tone,
     count      |-> HeaderResponses,
     angle      |-> StripText(custom_angle)]

\* "Desired Tone: Educational, Investigative, Watchdog": the tone written in
\* the title template; chosen_tone is not used, and there is no angle
TitleTone == <<"\"Educational, Investigative, Watchdog\"">>

get_title_prompt(transcript_text, chosen_tone, title_count) ==
    [template   |-> "title",
     transcript |-> transcript_text,
     tone       |-> TitleTone,
     count      |-> title_count,
     angle      |-> ""]

\* ------------------------------------------------ the steps of the script
\* the session state as one record, with the messages shown so far in the pass
Session == [transcript_input |-> transcript_input,
            generated_tones  |-> generated_tones,
            selected_tone    |-> selected_tone,
            last_result_md   |-> last_result_md,
            last_run_time    |-> last_run_time,
            reports          |-> {},
            radio_index      |-> radio_index,
            response_text    |-> response_text,
            tones_result     |-> tones_result,
            srt_file         |-> <<>>,
            srt_result       |-> NotParsed,
            area             |-> "",
            calls            |-> <<>>,
            result_source    |-> result_source]

\* the part of the session state an observer reads between two passes
Stored == [transcript_input |-> transcript_input,
           generated_tones  |-> generated_tones,
           selected_tone    |-> selected_tone,
           last_result_md   |-> last_result_md,
           last_run_time    |-> last_run_time]

\* subtitle files the operator uploads: one block with the line T1, and one
\* block whose only line is a tag
SrtUploads ==
    { WriteBlocks(<<[hms |-> HmsComma, lines |-> << <<"T1">> >>]>>, 1),
      WriteBlocks(<<[hms |-> HmsPeriod, lines |-> << <<LessThan, "i", GreaterThan>> >>]>>, 1) }

\* parse_srt of each of these files
ParsedUploads == [file \in SrtUploads |-> parse_srt(file)]

\* the message of the subtitle branch for the parse result
SrtMessages(parsed) == IF parsed.dialogue = "" THEN {"srt_error"} ELSE {}

\* variant: a file without dialogue is passed over in silence
UseParsed_silent(ss, file, parsed) ==
    [ss EXCEPT !.srt_file   = file,
               !.srt_result = parsed,
               !.area       = parsed.dialogue]

\* "if parsed: transcript_input_area = parsed ... else: st.error"
UseParsed(ss, file, parsed) ==
    [ss EXCEPT !.srt_file   = file,
               !.srt_result = parsed,
               !.area       = parsed.dialogue,
               !.reports    = @ \cup SrtMessages(parsed)]

\* "parsed = parse_srt(uploaded_srt.getvalue())"
SrtUpload(ss, file) == UseParsed(ss, file, ParsedUploads[file])

\* "Step 1: Input Transcript": the text of the text widgets, or the dialogue
\* of the subtitle file that the uploader holds
InputTranscript(ss, text, uploaded, file) ==
    IF uploaded THEN SrtUpload(ss, file) ELSE [ss EXCEPT !.area = text]

\* variant: the result document is not reset with the rest
UpdateInput_keepsResult(ss, area) ==
    IF area # "" /\ ss.transcript_input # area
    THEN [ss EXCEPT !.transcript_input = area,
                    !.generated_tones  = <<>>,
                    !.selected_tone    = None]
    ELSE ss

\* variant: the test for non-empty input is missing
UpdateInput_storesEmpty(ss, area) ==
    IF ss.transcript_input # area
    THEN [ss EXCEPT !.transcript_input = area,
                    !.generated_tones  = <<>>,
                    !.selected_tone    = None,
                    !.last_result_md   = EmptyMd]
    ELSE ss

\* variant: the comparison with the stored transcript is missing
UpdateInput_resetsAlways(ss, area) ==
    IF area # ""
    THEN [ss EXCEPT !.transcript_input = area,
                    !.generated_tones  = <<>>,
                    !.selected_tone    = None,
                    !.last_result_md   = EmptyMd]
    ELSE ss

\* "Update session state if input changes"
UpdateInput(ss, area) ==
    IF area # "" /\ ss.transcript_input # area
    THEN [ss EXCEPT !.transcript_input = area,
                    !.generated_tones  = <<>>,
                    !.selected_tone    = None,
                    !.last_result_md   = EmptyMd]
    ELSE ss

\* Step 1 with the update that follows it
StoreInput(ss) == UpdateInput(ss, ss.area)

\* the messages of Step 2 for the parse result
ToneMessages(parsed) ==
    (IF parsed.error THEN {"json_error"} ELSE {})
        \cup (IF parsed.value.items = <<>> THEN {"no_tones_warning"} ELSE {})

\* variant: the tones are stored only when there are some
StoreTones_keepsTones(ss, text, parsed) ==
    [ss EXCEPT !.generated_tones = IF parsed.value.items # <<>> THEN parsed.value.items ELSE @,
               !.response_text   = text,
               !.tones_result    = parsed,
               !.reports         = @ \cup ToneMessages(parsed)]

\* "tones = parse_json_from_response(...)", "generated_tones = tones", "if not tones: st.warning"
StoreTones(ss, text, parsed) ==
    [ss EXCEPT !.generated_tones = parsed.value.items,
               !.response_text   = text,
               !.tones_result    = parsed,
               !.reports         = @ \cup ToneMessages(parsed)]

\* variant: every text counts as a transcript
TranscriptSet_always(text) == TRUE

\* "if st.session_state.transcript_input:"
TranscriptSet(text) == text # ""

\* "response = model.generate_content(prompt)": the prompt is sent
SendPrompt(ss, prompt) == [ss EXCEPT !.calls = Append(@, prompt)]

\* variant: the old tones are dropped before the call is made
AnalyzeTone_clearsFirst(ss, clicked, call) ==
    IF TranscriptSet(ss.transcript_input) /\ clicked
    THEN IF call.ok
         THEN StoreTones(SendPrompt(ss, get_tone_prompt(ss.transcript_input)),
                         call.text, parse_json_from_response(call.text))
         ELSE [SendPrompt(ss, get_tone_prompt(ss.transcript_input))
                   EXCEPT !.generated_tones = <<>>,
                          !.reports = @ \cup {"tone_analysis_error"}]
    ELSE ss

\* "Step 2: Analyze Tone"
AnalyzeTone(ss, clicked, call) ==
    IF TranscriptSet(ss.transcript_input) /\ clicked
    THEN IF call.ok
         THEN StoreTones(SendPrompt(ss, get_tone_prompt(ss.transcript_input)),
                         call.text, parse_json_from_response(call.text))
         ELSE [SendPrompt(ss, get_tone_prompt(ss.transcript_input))
                   EXCEPT !.reports = @ \cup {"tone_analysis_error"}]
    ELSE ss

\* st.radio: the widget keeps its position while it is shown with the same
\* options; shown anew (other options, or not shown in the last pass) it
\* stands on the first option.  pick = the option the operator clicked, 0 = none
st_radio(options, pick) ==
    IF options = <<>> THEN 0
    ELSE IF options = generated_tones /\ radio_index # 0
         THEN (IF pick # 0 THEN pick ELSE radio_index)
         ELSE 1

\* "Step 3: Select Tone"; the position of the radio is kept with the state
SelectToneStep(ss, pick) ==
    IF ss.generated_tones # <<>>
    THEN [ss EXCEPT !.selected_tone = PyValue(ss.generated_tones[st_radio(ss.generated_tones, pick)]),
                    !.radio_index   = st_radio(ss.generated_tones, pick)]
    ELSE [ss EXCEPT !.radio_index = 0]

\* variant: the title section is left out of the document
ResultMd_noTitles(tone, header_text, title_text) ==
    [tone |-> tone, headers |-> header_text, titles |-> ""]

\* final_md: the heading with the tone, the header section, the title section
ResultMd(tone, header_text, title_text) ==
    [tone |-> tone, headers |-> header_text, titles |-> title_text]

\* the two prompts of Step 4, from the session state and the sidebar
HeaderPrompt(ss, sb) ==
    get_header_prompt(ss.transcript_input, ss.selected_tone, sb.header_count,
                      IF sb.use_custom_angle THEN StripText(sb.custom_angle) ELSE "")

TitlePrompt(ss, sb) ==
    get_title_prompt(ss.transcript_input, ss.selected_tone, sb.title_count)

\* variant: the document is stored section by section
GenerateContentStep_partial(ss, clicked, sb, header_call, title_call, now) ==
    IF ss.selected_tone # None /\ clicked
    THEN IF ~header_call.ok
         THEN [SendPrompt(ss, HeaderPrompt(ss, sb)) EXCEPT !.reports = @ \cup {"generation_error"}]
         ELSE IF ~title_call.ok
              THEN [SendPrompt(SendPrompt(ss, HeaderPrompt(ss, sb)), TitlePrompt(ss, sb))
                        EXCEPT !.last_result_md = [tone |-> ss.selected_tone, headers |-> header_call.text, titles |-> ""],
                               !.result_source  = HeaderPrompt(ss, sb).transcript,
                               !.reports = @ \cup {"generation_error"}]
         ELSE [SendPrompt(SendPrompt(ss, HeaderPrompt(ss, sb)), TitlePrompt(ss, sb))
                   EXCEPT !.last_result_md = [tone |-> ss.selected_tone, headers |-> header_call.text, titles |-> title_call.text],
                          !.last_run_time  = now,
                          !.result_source  = TitlePrompt(ss, sb).transcript]
    ELSE ss

\* variant: the title call is made although the header call has failed
GenerateContentStep_bothCalls(ss, clicked, sb, header_call, title_call, now) ==
    IF ss.selected_tone # None /\ clicked
    THEN IF ~header_call.ok \/ ~title_call.ok
         THEN [SendPrompt(SendPrompt(ss, HeaderPrompt(ss, sb)), TitlePrompt(ss, sb))
                   EXCEPT !.reports = @ \cup {"generation_error"}]
         ELSE [SendPrompt(SendPrompt(ss, HeaderPrompt(ss, sb)), TitlePrompt(ss, sb))
                   EXCEPT !.last_result_md = ResultMd(ss.selected_tone, header_call.text, title_call.text),
                          !.last_run_time  = now,
                          !.result_source  = TitlePrompt(ss, sb).transcript]
    ELSE ss

\* "Step 4: Generate Content"
GenerateContentStep(ss, clicked, sb, header_call, title_call, now) ==
    IF ss.selected_tone # None /\ clicked
    THEN IF ~header_call.ok
         THEN [SendPrompt(ss, HeaderPrompt(ss, sb)) EXCEPT !.reports = @ \cup {"generation_error"}]
         ELSE IF ~title_call.ok
              THEN [SendPrompt(SendPrompt(ss, HeaderPrompt(ss, sb)), TitlePrompt(ss, sb))
                        EXCEPT !.reports = @ \cup {"generation_error"}]
         ELSE [SendPrompt(SendPrompt(ss, HeaderPrompt(ss, sb)), TitlePrompt(ss, sb))
                   EXCEPT !.last_result_md = ResultMd(ss.selected_tone, header_call.text, title_call.text),
                          !.last_run_time  = now,
                          !.result_source  = TitlePrompt(ss, sb).transcript]
    ELSE ss

\* the session state at the end of the pass becomes the stored state
Commit(ss, sb, event) ==
    /\ transcript_input'      = ss.transcript_input
    /\ generated_tones'       = ss.generated_tones
    /\ selected_tone'         = ss.selected_tone
    /\ last_result_md'        = ss.last_result_md
    /\ last_run_time'         = ss.last_run_time
    /\ reports'               = ss.reports
    /\ response_text'         = ss.response_text
    /\ tones_result'          = ss.tones_result
    /\ radio_index'           = ss.radio_index
    /\ srt_file'              = ss.srt_file
    /\ srt_result'            = ss.srt_result
    /\ srt_blocks'            = srt_blocks
    /\ calls'                 = ss.calls
    /\ sidebar'               = sb
    /\ pc'                    = "idle"
    /\ pending'               = {}
    /\ header_response'       = GenFailed
    /\ extract_results'       = extract_results
    /\ result_source'         = (IF ss.last_result_md = EmptyMd THEN "" ELSE ss.result_source)
    /\ transcript_input_area' = ss.area
    /\ last_event'            = event
    /\ before'                = Stored

\* one execution of the script: steps 1 to 4 in order
RunScript(text, uploaded, file, sb, analyze_clicked, tone_call, pick, generate_clicked, header_call, title_call, now, event) ==
    Commit(GenerateContentStep(
               SelectToneStep(
                   AnalyzeTone(StoreInput(InputTranscript(Session, text, uploaded, file)),
                               analyze_clicked, tone_call),
                   pick),
               generate_clicked, sb, header_call, title_call, now),
           sb, event)

Event(op, result) == [op |-> op, result |-> result]

\* ------------------------------------------------------ operator events
\* the operator pastes text, uploads a text file or removes the input: the
\* text widgets now hold doc
SetTranscript(doc) ==
    /\ doc \in Docs \cup {""}
    /\ RunScript(doc, FALSE, <<>>, sidebar, FALSE, CallFailed, 0, FALSE, GenFailed, GenFailed, last_run_time,
                 Event("set_transcript", "none"))

\* the operator uploads a subtitle file
UploadSrt(file) ==
    /\ file \in SrtUploads
    /\ RunScript("", TRUE, file, sidebar, FALSE, CallFailed, 0, FALSE, GenFailed, GenFailed, last_run_time,
                 Event("upload_srt", "none"))

\* "if st.session_state.transcript_input:" shows the "Analyze Tones" button
AnalyzeButtonShown == TranscriptSet(transcript_input)

\* "if st.session_state.selected_tone:" shows the "Generate" button
GenerateButtonShown == selected_tone # None

\* the operator clicks "Analyze Tones"
RequestToneExtraction(call) ==
    /\ AnalyzeButtonShown
    /\ RunScript(transcript_input_area, srt_result.called, srt_file, sidebar, TRUE, call, 0, FALSE, GenFailed, GenFailed, last_run_time,
                 Event("analyze", IF call.ok THEN "completed" ELSE "failed"))

\* the operator clicks an option of the tone radio (shown when there are tones)
SelectTone(pick) ==
    /\ generated_tones # <<>>
    /\ pick \in 1..Len(generated_tones)
    /\ RunScript(transcript_input_area, srt_result.called, srt_file, sidebar, FALSE, CallFailed, pick, FALSE, GenFailed, GenFailed, last_run_time,
                 Event("select", "none"))

\* the operator clicks "Generate Titles & Headlines"
RequestContentGeneration(sb, header_call, title_call, now) ==
    /\ GenerateButtonShown
    /\ now >= last_run_time
    /\ RunScript(transcript_input_area, srt_result.called, srt_file, sb, FALSE, CallFailed, 0, TRUE, header_call, title_call, now,
                 Event("generate", IF ~header_call.ok THEN "header_failed"
                                   ELSE IF ~title_call.ok THEN "title_failed" ELSE "completed"))

Init ==
    /\ transcript_input = ""
    /\ generated_tones = <<>>
    /\ selected_tone = None
    /\ last_result_md = EmptyMd
    /\ last_run_time = 0
    /\ transcript_input_area = ""
    /\ radio_index = 0
    /\ last_event = Event("start", "none")
    /\ before = Stored
    /\ reports = {}
    /\ response_text = <<>>
    /\ tones_result = NotCalled
    /\ srt_blocks = <<>>
    /\ srt_file = <<>>
    /\ srt_result = NotParsed
    /\ sidebar = SidebarDefault
    /\ calls = <<>>
    /\ pc = "idle"
    /\ pending = {}
    /\ header_response = GenFailed
    /\ extract_results = <<>>
    /\ result_source = (IF last_result_md = EmptyMd THEN "" ELSE transcript_input)

Next ==
    \/ \E doc \in Docs \cup {""} : SetTranscript(doc)
    \/ \E file \in SrtUploads : UploadSrt(file)
    \/ \E call \in ToneCalls : RequestToneExtraction(call)
    \/ \E pick \in 1..Len(generated_tones) : SelectTone(pick)
    \/ \E sb \in Sidebars, h \in HeaderCalls, t \in TitleCalls, now \in Times :
           RequestContentGeneration(sb, h, t, now)

Spec == Init /\ [][Next]_vars

\* ------------------------------------- the passes, call by call
\* model.generate_content blocks the script until the service has answered:
\* a pass with a call is taken in steps, one for the sending of each prompt
\* and one for each answer.  An operator event starts a pass; the next one is
\* taken up when the script has run to its end.
Idle == pc = "idle"

\* what a step that only sends a prompt leaves alone
PassVars == <<transcript_input, generated_tones, selected_tone, last_result_md,
              last_run_time, transcript_input_area, radio_index, last_event, before,
              reports, response_text, tones_result, srt_blocks, srt_file, srt_result,
              calls, extract_results, result_source>>

\* "Analyze Tones" is clicked: the script runs to the tone call and waits
BeginToneCall ==
    /\ Idle
    /\ AnalyzeButtonShown
    /\ pc' = "tone_call"
    /\ pending' = {"tone"}
    /\ UNCHANGED <<PassVars, sidebar, header_response>>

\* the tone call returns or raises: the script runs to its end
EndToneCall(call) ==
    /\ pc = "tone_call"
    /\ RequestToneExtraction(call)

\* variant: the two prompts are sent together
BeginHeaderCall_concurrent(sb) ==
    /\ Idle
    /\ GenerateButtonShown
    /\ pc' = "header_call"
    /\ pending' = {"header", "title"}
    /\ sidebar' = sb
    /\ UNCHANGED <<PassVars, header_response>>

\* "Generate" is clicked: the script runs to the header call and waits
BeginHeaderCall(sb) ==
    /\ Idle
    /\ GenerateButtonShown
    /\ pc' = "header_call"
    /\ pending' = {"header"}
    /\ sidebar' = sb
    /\ UNCHANGED <<PassVars, header_response>>

\* the header call returns: the title prompt is sent; or it raises: the
\* script runs to its end
EndHeaderCall(header_call) ==
    /\ pc = "header_call"
    /\ IF header_call.ok
       THEN /\ pc' = "title_call"
            /\ pending' = {"title"}
            /\ header_response' = header_call
            /\ UNCHANGED <<PassVars, sidebar>>
       ELSE RequestContentGeneration(sidebar, header_call, GenFailed, last_run_time)

\* the title call returns or raises: the script runs to its end
EndTitleCall(title_call, now) ==
    /\ pc = "title_call"
    /\ RequestContentGeneration(sidebar, header_response, title_call, now)

NextSteps ==
    \/ \E doc \in Docs \cup {""} : Idle /\ SetTranscript(doc)
    \/ \E file \in SrtUploads : Idle /\ UploadSrt(file)
    \/ \E pick \in 1..Len(generated_tones) : Idle /\ SelectTone(pick)
    \/ BeginToneCall
    \/ \E call \in ToneCalls : EndToneCall(call)
    \/ \E sb \in Sidebars : BeginHeaderCall(sb)
    \/ \E h \in HeaderCalls : EndHeaderCall(h)
    \/ \E t \in TitleCalls, now \in Times : EndTitleCall(t, now)

SpecSteps == Init /\ [][NextSteps]_vars

\* --------------------------------------- the extractor on arbitrary text
\* the session states in which the extractor is tried: the first pass, and
\* a session with tones, a selected tone and a result document
StoredAtExtract ==
    { [transcript_input |-> "", generated_tones |-> <<>>, selected_tone |-> None,
       last_result_md |-> EmptyMd, last_run_time |-> 0],
      [transcript_input |-> "T1", generated_tones |-> << <<StrA>>, <<StrB>> >>,
       selected_tone |-> <<StrA>>, last_result_md |-> ResultMd(<<StrA>>, "H1", "L1"),
       last_run_time |-> 1] }

InitExtract ==
    /\ \E st \in StoredAtExtract :
           /\ transcript_input = st.transcript_input
           /\ generated_tones = st.generated_tones
           /\ selected_tone = st.selected_tone
           /\ last_result_md = st.last_result_md
           /\ last_run_time = st.last_run_time
    /\ transcript_input_area = transcript_input
    /\ radio_index = (IF generated_tones = <<>> THEN 0 ELSE 1)
    /\ last_event = Event("start", "none")
    /\ before = Stored
    /\ reports = {}
    /\ response_text \in SeqsUpTo(MaxLen)
    /\ tones_result = NotCalled
    /\ srt_blocks = <<>>
    /\ srt_file = <<>>
    /\ srt_result = NotParsed
    /\ sidebar = SidebarDefault
    /\ calls = <<>>
    /\ pc = "idle"
    /\ pending = {}
    /\ header_response = GenFailed
    /\ extract_results = <<>>
    /\ result_source = (IF last_result_md = EmptyMd THEN "" ELSE transcript_input)

\* variant: the extractor itself stores what it has parsed
Extract_storesTones ==
    /\ Len(extract_results) < MaxExtracts
    /\ tones_result' = parse_json_from_response(response_text)
    /\ extract_results' = Append(extract_results, tones_result')
    /\ generated_tones' = tones_result'.value.items
    /\ reports' = IF tones_result'.error THEN {"json_error"} ELSE {}
    /\ last_event' = Event("extract", "none")
    /\ UNCHANGED <<transcript_input, selected_tone, last_result_md,
                   last_run_time, transcript_input_area, radio_index, response_text, before,
                   srt_blocks, srt_file, srt_result, sidebar, calls, pc, pending,
                   header_response, result_source>>

\* parse_json_from_response(response_text): it reads its argument and
\* reports with st.error; it assigns nothing
Extract ==
    /\ Len(extract_results) < MaxExtracts
    /\ tones_result' = parse_json_from_response(response_text)
    /\ extract_results' = Append(extract_results, tones_result')
    /\ reports' = IF tones_result'.error THEN {"json_error"} ELSE {}
    /\ last_event' = Event("extract", "none")
    /\ UNCHANGED <<transcript_input, generated_tones, selected_tone, last_result_md,
                   last_run_time, transcript_input_area, radio_index, response_text, before,
                   srt_blocks, srt_file, srt_result, sidebar, calls, pc, pending,
                   header_response, result_source>>

NextExtract == Extract

SpecExtract == InitExtract /\ [][NextExtract]_vars

\* ------------------------------------ the normalizer on subtitle files
InitSrt ==
    /\ transcript_input = ""
    /\ generated_tones = <<>>
    /\ selected_tone = None
    /\ last_result_md = EmptyMd
    /\ last_run_time = 0
    /\ transcript_input_area = ""
    /\ radio_index = 0
    /\ last_event = Event("start", "none")
    /\ before = Stored
    /\ reports = {}
    /\ response_text = <<>>
    /\ tones_result = NotCalled
    /\ srt_blocks \in UNION {BlocksOfLen(n) : n \in 0..MaxBlocks}
    /\ srt_file = WriteBlocks(srt_blocks, 1)
    /\ srt_result = NotParsed
    /\ sidebar = SidebarDefault
    /\ calls = <<>>
    /\ pc = "idle"
    /\ pending = {}
    /\ header_response = GenFailed
    /\ extract_results = <<>>
    /\ result_source = (IF last_result_md = EmptyMd THEN "" ELSE transcript_input)

Normalize ==
    /\ ~srt_result.called
    /\ srt_result' = parse_srt(srt_file)
    /\ last_event' = Event("normalize", "none")
    /\ UNCHANGED <<transcript_input, generated_tones, selected_tone, last_result_md,
                   last_run_time, transcript_input_area, radio_index, before, reports,
                   response_text, tones_result, srt_blocks, srt_file, sidebar, calls,
                   pc, pending, header_response, extract_results, result_source>>

NextSrt == Normalize

SpecSrt == InitSrt /\ [][NextSrt]_vars

\* ================================================================ properties
IsMember(tone, tones) == \E i \in 1..Len(tones) : tones[i] = tone

\* stage Input: no tones, no selection, no result document
InInput(st) ==
    /\ st.generated_tones = <<>>
    /\ st.selected_tone = None
    /\ st.last_result_md = EmptyMd

\* C1: in every state between two passes the selected tone is unset or is a
\* member of the current tone sequence.
C1_NoDanglingSelection ==
    selected_tone = None \/ IsMember(selected_tone, generated_tones)

\* C2 (as stated): after the operator supplies a transcript, whatever it is and
\* whatever the state was, there are no tones, no selection and no result.
C2_SetTranscriptAlwaysClears ==
    last_event.op = "set_transcript" => InInput(Stored)

\* C2 (amended): after the operator supplies a non-empty transcript that differs
\* from the stored one, there are no tones, no selection and no result.
C2_ChangedTranscriptClears ==
    (/\ last_event.op = "set_transcript"
     /\ transcript_input_area # ""
     /\ transcript_input_area # before.transcript_input)
    => InInput(Stored)

C2_Witness ==
    /\ last_event.op = "set_transcript"
    /\ transcript_input_area # ""
    /\ transcript_input_area # before.transcript_input
    /\ before.generated_tones # <<>>
    /\ before.selected_tone # None
    /\ before.last_result_md # EmptyMd
    /\ InInput(Stored)

\* C3 (as stated): after the operator supplies doc the stored transcript is doc,
\* so it is unset after an empty doc, and the stage is Input.
C3_StoredEqualsSupplied ==
    last_event.op = "set_transcript" =>
        /\ transcript_input = transcript_input_area
        /\ InInput(Stored)

\* C3 (amended): after the operator supplies a non-empty doc the stored
\* transcript is doc, and the stage is Input if doc differs from what was
\* stored; after an empty doc the stored transcript is the one stored before.
C3_StoredAfterSetTranscript ==
    last_event.op = "set_transcript" =>
        /\ transcript_input_area # "" =>
              /\ transcript_input = transcript_input_area
              /\ transcript_input_area # before.transcript_input => InInput(Stored)
        /\ transcript_input_area = "" => transcript_input = before.transcript_input

C3_Witness ==
    /\ last_event.op = "set_transcript"
    /\ transcript_input_area = ""
    /\ before.transcript_input # ""
    /\ transcript_input = before.transcript_input
    /\ AnalyzeButtonShown

\* C4: a content generation whose header call or title call fails leaves the
\* result document and its timestamp as they were, reports the failure, and
\* leaves the selected tone set and unchanged.
C4_GenerationAllOrNothing ==
    (last_event.op = "generate" /\ last_event.result \in {"header_failed", "title_failed"}) =>
        /\ last_result_md = before.last_result_md
        /\ last_run_time = before.last_run_time
        /\ selected_tone = before.selected_tone
        /\ selected_tone # None
        /\ "generation_error" \in reports

C4_Witness ==
    /\ last_event = Event("generate", "title_failed")
    /\ before.last_result_md = EmptyMd
    /\ last_result_md = EmptyMd
    /\ selected_tone # None

\* C5: after the operator selects a tone, that tone is the selected tone and
\* there is no result document.
C5_SelectToneClearsResult ==
    last_event.op = "select" =>
        /\ selected_tone = generated_tones[radio_index]
        /\ last_result_md = EmptyMd

\* C6: after a tone extraction that completed in a state with a selected tone,
\* there is no result document, and the selected tone is not a leftover of the
\* replaced sequence (it is unset or taken from the new sequence).
C6_ReextractionCascadeClears ==
    (last_event = Event("analyze", "completed") /\ before.selected_tone # None) =>
        /\ last_result_md = EmptyMd
        /\ selected_tone = None \/ IsMember(selected_tone, generated_tones)

\* C7: after a tone extraction whose completion does not parse, the tone
\* sequence is empty, the error and the advisory are reported, the transcript
\* is the one stored before, the "Analyze Tones" button is still shown, and a
\* pipeline that was in Input is in Input.
C7_MalformedCompletionRecovered ==
    (last_event = Event("analyze", "completed") /\ tones_result.error) =>
        /\ generated_tones = <<>>
        /\ {"json_error", "no_tones_warning"} \subseteq reports
        /\ transcript_input = before.transcript_input
        /\ AnalyzeButtonShown
        /\ InInput(before) => InInput(Stored)

C7_Witness ==
    /\ last_event = Event("analyze", "completed")
    /\ tones_result.error
    /\ response_text = <<Prose>>
    /\ before.generated_tones # <<>>
    /\ generated_tones = <<>>

\* C8: after a tone extraction whose call failed, the failure is reported and
\* transcript, tones, selected tone and result document are as before.
C8_FailedExtractionChangesNothing ==
    last_event = Event("analyze", "failed") =>
        /\ Stored = before
        /\ "tone_analysis_error" \in reports

C8_Witness ==
    /\ last_event = Event("analyze", "failed")
    /\ "tone_analysis_error" \in reports
    /\ generated_tones # <<>>
    /\ last_result_md # EmptyMd
    /\ Stored = before

\* C9: a result document appears only in a content generation with a tone
\* selected, and every result document names the tone selected when it was
\* made and has a header section and a title section.
C9_ResultMadeForSelectedTone ==
    /\ last_result_md # EmptyMd =>
          /\ last_result_md.tone # None
          /\ last_result_md.headers \in HeaderTexts
          /\ last_result_md.titles \in TitleTexts
    /\ (last_result_md # EmptyMd /\ last_result_md # before.last_result_md) =>
          last_event = Event("generate", "completed")
    /\ last_event = Event("generate", "completed") =>
          /\ before.selected_tone # None
          /\ last_result_md.tone = before.selected_tone
          /\ selected_tone = before.selected_tone

C9_Witness ==
    /\ last_event = Event("generate", "completed")
    /\ last_result_md # before.last_result_md
    /\ last_result_md.tone = selected_tone
    /\ before.last_result_md # EmptyMd

\* the JSON-tagged fenced blocks of a text: an opening FenceJson, the next
\* fence after it
C10_Blocks(text) ==
    {b \in (1..Len(text)) \X (1..Len(text)) :
        /\ text[b[1]] = FenceJson
        /\ b[2] > b[1]
        /\ IsFence(text[b[2]])
        /\ \A k \in (b[1] + 1)..(b[2] - 1) : ~IsFence(text[k])}

C10_First(text) == CHOOSE b \in C10_Blocks(text) : \A c \in C10_Blocks(text) : b[1] <= c[1]

C10_Payload(text) ==
    IF C10_Blocks(text) = {} THEN text
    ELSE SubSeq(text, C10_First(text)[1] + 1, C10_First(text)[2] - 1)

\* C10: the extractor returns the JSON value of the payload (the interior of
\* the first JSON-tagged fenced block, else the whole completion), or the
\* empty sequence with a reported issue when the payload does not parse.
C10_ExtractorResult ==
    tones_result.called =>
        /\ tones_result.error = ~JsonLoads(C10_Payload(response_text)).ok
        /\ tones_result.value = JsonLoads(C10_Payload(response_text)).value
        /\ tones_result.error <=> "json_error" \in reports

C10_Witness ==
    /\ tones_result.called
    /\ C10_Blocks(response_text) # {}
    /\ ~tones_result.error
    /\ tones_result.value.items # <<>>

\* the tokens of a dialogue line that lie in no angle-bracket span
C11_InTag(line, k) ==
    \E p \in 1..k, q \in k..Len(line) :
        /\ line[p] = LessThan
        /\ line[q] = GreaterThan
        /\ \A m \in (p + 1)..(q - 1) : line[m] \notin {LessThan, GreaterThan}

RECURSIVE C11_Visible(_, _)
C11_Visible(line, k) ==
    IF k > Len(line) THEN <<>>
    ELSE (IF C11_InTag(line, k) THEN <<>> ELSE <<line[k]>>) \o C11_Visible(line, k + 1)

\* a line without the spaces around it
C11_Trimmed(line) ==
    IF \A k \in 1..Len(line) : line[k] = Space THEN <<>>
    ELSE SubSeq(line,
                CHOOSE a \in 1..Len(line) : line[a] # Space /\ \A m \in 1..(a - 1) : line[m] = Space,
                CHOOSE z \in 1..Len(line) : line[z] # Space /\ \A m \in (z + 1)..Len(line) : line[m] = Space)

\* the dialogue lines of the blocks, block after block, line after line
RECURSIVE C11_AllLines(_)
C11_AllLines(blocks) ==
    IF blocks = <<>> THEN <<>> ELSE Head(blocks).lines \o C11_AllLines(Tail(blocks))

RECURSIVE C11_Joined(_)
C11_Joined(lines) ==
    IF lines = <<>> THEN <<>>
    ELSE C11_Trimmed(C11_Visible(Head(lines), 1))
             \o (IF Len(lines) > 1 THEN <<Space>> ELSE <<>>) \o C11_Joined(Tail(lines))

\* C11: for a subtitle file written from N blocks, the normalizer returns the
\* dialogue lines of the blocks, without their tags, trimmed, joined by single
\* spaces in their order, repeated lines kept; no timestamp and no tag is left.
C11_NormalizerKeepsDialogue ==
    srt_result.called =>
        /\ srt_result.tokens = C11_Joined(C11_AllLines(srt_blocks))
        /\ srt_result.dialogue = Text(C11_Joined(C11_AllLines(srt_blocks)))
        /\ \A k \in 1..Len(srt_result.tokens) :
              srt_result.tokens[k] \notin {HmsComma, HmsPeriod, Millis, Dashes, LessThan, GreaterThan, Newline}

C11_Witness ==
    /\ srt_result.called
    /\ Len(srt_blocks) = 2
    /\ srt_blocks[1].hms = HmsComma
    /\ srt_blocks[2].hms = HmsPeriod
    /\ srt_blocks[1].lines = srt_blocks[2].lines
    /\ Len(srt_blocks[1].lines) = 2
    /\ srt_blocks[1].lines[1] = <<"42">>
    /\ srt_result.dialogue = "42 Hello world 42 Hello world"

\* the custom angle that the sidebar asks for
C12_Angle == IF sidebar.use_custom_angle THEN StripText(sidebar.custom_angle) ELSE ""

\* C12: in a pass that generates content, the header call and the title call
\* are both made with the stored transcript, the selected tone and the custom
\* angle of the request.
C12_BothCallsCarryToneAndAngle ==
    last_event.op = "generate" =>
        \A k \in 1..Len(calls) :
            /\ calls[k].transcript = transcript_input
            /\ calls[k].tone = selected_tone
            /\ calls[k].angle = C12_Angle

\* C13: the header count of the request is the count written in the header
\* prompt, and the title count of the request the count written in the title
\* prompt.
C13_CountsReachPrompts ==
    last_event.op = "generate" =>
        \A k \in 1..Len(calls) :
            /\ calls[k].template = "header" => calls[k].count = sidebar.header_count
            /\ calls[k].template = "title"  => calls[k].count = sidebar.title_count

\* the templates of the prompts sent in the last pass, in the order of sending
C14_Templates == [k \in 1..Len(calls) |-> calls[k].template]

\* C14: a pass for "Analyze Tones" makes exactly one call; a pass for
\* "Generate" makes the header call and, only if that one succeeded, the title
\* call after it; no call is repeated, and a pass without a request makes none.
C14_NoRetry ==
    /\ last_event.op = "analyze" => C14_Templates = <<"tone">>
    /\ last_event.op = "generate" /\ last_event.result = "header_failed" => C14_Templates = <<"header">>
    /\ last_event.op = "generate" /\ last_event.result # "header_failed" => C14_Templates = <<"header", "title">>
    /\ last_event.op \notin {"analyze", "generate"} => calls = <<>>

C14_Witness ==
    /\ last_event = Event("generate", "header_failed")
    /\ Len(calls) = 1
    /\ before.last_result_md # EmptyMd

\* C16: a tone call is made only for a transcript that is set, and a
\* generation call only when a tone was selected before the pass began.
C16_CallsOnlyWhenEnabled ==
    \A k \in 1..Len(calls) :
        /\ calls[k].template = "tone" => calls[k].transcript # ""
        /\ calls[k].template \in {"header", "title"} =>
               before.selected_tone # None /\ selected_tone # None

C16_Witness ==
    /\ last_event.op = "analyze"
    /\ Len(calls) = 1
    /\ calls[1].transcript = "T2"
    /\ before.generated_tones # <<>>

\* C18: a pass in which the uploaded subtitle file gives no dialogue reports
\* the failure and treats the input as absent: the stored transcript, tones,
\* selected tone and result document are the ones stored before the pass.
C18_FailedUploadIsAbsentInput ==
    srt_result.called /\ srt_result.dialogue = "" =>
        /\ "srt_error" \in reports
        /\ transcript_input_area = ""
        /\ last_event.op = "upload_srt" => Stored = before

C18_Witness ==
    /\ last_event.op = "upload_srt"
    /\ srt_result.called
    /\ srt_result.dialogue = ""
    /\ "srt_error" \in reports
    /\ before.last_result_md # EmptyMd
    /\ Stored = before

\* C20: a stored transcript never becomes empty again, and a pass whose input
\* is empty or equal to the stored transcript leaves the transcript, the
\* tones, the selected tone and the result document as they were.
C20_TranscriptStaysSet ==
    /\ before.transcript_input # "" => transcript_input # ""
    /\ last_event.op \in {"set_transcript", "upload_srt"}
           /\ transcript_input_area \in {"", before.transcript_input}
       => Stored = before

C20_Witness ==
    /\ last_event.op = "upload_srt"
    /\ transcript_input_area = "T1"
    /\ before.transcript_input = "T1"
    /\ before.last_result_md # EmptyMd
    /\ Stored = before

\* C19: between two passes, whenever there are tones a tone is selected and it
\* is one of them; after an extraction that brought other tones it is the
\* first of them.
C19_TonesPresentToneSelected ==
    generated_tones # <<>> =>
        /\ selected_tone # None
        /\ IsMember(selected_tone, generated_tones)
        /\ last_event.op = "analyze" /\ generated_tones # before.generated_tones
               => selected_tone = generated_tones[1]

\* C15: at most one call is pending at any time; while a call is pending the
\* stored state does not change, and the call ends only when it returns or
\* raises: either the pass is then run to its end, or (after the header call
\* has returned) the title call is pending.
C15_OneCallAtATime ==
    [][ /\ Cardinality(pending') <= 1
        /\ pending # {} /\ pending' = pending => Stored' = Stored
        /\ pending # {} /\ pending' # pending =>
               \/ pending = {"header"} /\ pending' = {"title"} /\ Stored' = Stored
               \/ /\ pending' = {}
                  /\ last_event'.op \in {"analyze", "generate"}
                  /\ last_event'.result \in {"completed", "failed", "header_failed", "title_failed"}
        /\ pending = {} /\ pending' # {} => Stored' = Stored ]_vars

C15_Witness ==
    /\ pc = "title_call"
    /\ pending = {"title"}
    /\ header_response.ok
    /\ last_result_md # EmptyMd

C21_ResultIsForStoredTranscript ==
    /\ last_result_md # EmptyMd =>
           /\ result_source = transcript_input
           /\ last_run_time # 0
    /\ transcript_input # before.transcript_input => last_result_md = EmptyMd

C21_Witness ==
    /\ last_event = Event("generate", "completed")
    /\ last_result_md # EmptyMd
    /\ result_source = "T2"
    /\ transcript_input = "T2"
    /\ before.last_result_md = EmptyMd
    /\ before.last_run_time # 0

====
